---- MODULE Spec2Model ----
(***************************************************************************)
(* Model of correcao_automatica.py: the three cleaning phases              *)
(*   padronizar_formatos_e_preencher_nulos  (Standardizer)                 *)
(*   remover_duplicatas_com_logica          (Deduplicator)                 *)
(*   corrigir_e_validar_relacionamentos     (Reconciler)                   *)
(* applied to the tables df_c (clientes), df_p (produtos), df_v (vendas).  *)
(*                                                                         *)
(* A table is a sequence of records (row order = DataFrame order).         *)
(* Monetary values are integers counted in thousandths (0.01 = 10), so     *)
(* that values closer than the 0.01 tolerance exist.  Dates are day        *)
(* ordinals; a date cell is a raw string [str |-> s], a parsed             *)
(* Timestamp [ts |-> d] or NaT.                                            *)
(***************************************************************************)
EXTENDS Integers, Sequences, FiniteSets, TLC

(***************************************************************************)
(* Bounds of the model                                                     *)
(***************************************************************************)
MaxClientes == 3      \* rows of the customer batch, customer-focused runs
MaxProdutos == 3      \* rows of the product batch, product-focused runs
MaxVendas == 2        \* rows of the sale batch, sale-focused runs
MaxLinhas == 2        \* rows per table, whole-pipeline runs

(***************************************************************************)
(* Cell values                                                             *)
(***************************************************************************)
NaN == -1                  \* missing cell of an id column (present ids are >= 0)
NaNStr == "<NaN>"          \* missing cell of a text column
NaT == [nat |-> TRUE]      \* missing timestamp
Timestamp(d) == [ts |-> d]
DataStr(s) == [str |-> s]

\* what date parsing yields for the date strings of the model;
\* any other string does not parse
Calendario ==
  [s \in {"2023-01-10", "2023-12-31", "2025-01-01", "2030-06-01"} |->
     CASE s = "2023-01-10" -> 1
       [] s = "2023-12-31" -> 2
       [] s = "2025-01-01" -> 3
       [] s = "2030-06-01" -> 4]

\* the days datetime.now().date() may return
DiasHoje == {2, 3}

PrecoMinimo == 10          \* 0.01
Tolerancia == 10           \* 0.01
IdNuloTemporario == 0      \* fillna(0)

NomeDesconhecido == "Nome_Desconhecido"
ProdutoSemNome == "Produto_Sem_Nome"
EstadoNA == "NA"

Abs(x) == IF x < 0 THEN -x ELSE x

SeqAte(S, n) == UNION {[1..k -> S] : k \in 0..n}

\* df[mask]: the rows whose mask entry is TRUE, in order
RECURSIVE Mask(_, _)
Mask(df, m) ==
  IF df = <<>> THEN <<>>
  ELSE (IF Head(m) THEN <<Head(df)>> ELSE <<>>) \o Mask(Tail(df), Tail(m))

\* the module-level example table df_clientes (only its length is read)
df_clientes ==
  << [id_cliente |-> 1,   nome |-> "Ana",    email |-> "a@a.com", estado |-> "SP"],
     [id_cliente |-> 2,   nome |-> "Bruno",  email |-> "b@b.com", estado |-> "RJ"],
     [id_cliente |-> NaN, nome |-> "Carlos", email |-> "c@c.com", estado |-> "SP"],
     [id_cliente |-> 4,   nome |-> "Diana",  email |-> "d@d.com", estado |-> "XX"],
     [id_cliente |-> 1,   nome |-> "Ana",    email |-> "a@a.com", estado |-> "RJ"],
     [id_cliente |-> 6,   nome |-> "Eva",    email |-> "e@e.com", estado |-> "MG"] >>

(***************************************************************************)
(* 1. padronizar_formatos_e_preencher_nulos                                *)
(***************************************************************************)
\* fillna left out
fillna_sem_efeito(x, valor) == x

fillna(x, valor) == IF x = NaN THEN valor ELSE x

fillna_str(x, valor) == IF x = NaNStr THEN valor ELSE x

\* astype(int) raises on a missing value
astype_int_raises(x) == x = NaN

\* str(x) of a cell: the missing value prints as 'nan'
py_str(x) == IF x = NaNStr THEN "nan" ELSE x

\* lambda x: x if len(str(x)) == 2 else 'NA'
corrigir_estado(x) == IF Len(py_str(x)) = 2 THEN x ELSE EstadoNA

\* x < 0 in place of x <= 0
corrigir_preco_estrito(x) == IF x < 0 THEN PrecoMinimo ELSE x

\* lambda x: 0.01 if x <= 0 else x
corrigir_preco(x) == IF x <= 0 THEN PrecoMinimo ELSE x

\* x <= 0 in place of x == 0
corrigir_quantidade_nao_positiva(x) == IF x <= 0 THEN 1 ELSE x

\* lambda x: 1 if x == 0 else x
corrigir_quantidade(x) == IF x = 0 THEN 1 ELSE x

\* pd.to_datetime(cell, errors=...): a Timestamp or NaT is returned as is,
\* a string is parsed; an unparsable string gives NaT under 'coerce'
to_datetime_raises(x, errors) ==
  /\ "str" \in DOMAIN x
  /\ x.str \notin DOMAIN Calendario
  /\ errors # "coerce"

to_datetime(x, errors) ==
  IF "str" \in DOMAIN x
    THEN IF x.str \in DOMAIN Calendario THEN Timestamp(Calendario[x.str]) ELSE NaT
    ELSE x

\* data_venda > hoje (a comparison with NaT is False)
data_futura(x, hoje) == "ts" \in DOMAIN x /\ x.ts > hoje

\* future dates left as they are
corrigir_data_futura_omitida(x, hoje) == x

\* df_v.loc[registros_futuros.index, 'data_venda'] = hoje
corrigir_data_futura(x, hoje) == IF data_futura(x, hoje) THEN Timestamp(hoje) ELSE x

padronizar_cliente(r) ==
  [id_cliente |-> fillna(r.id_cliente, IdNuloTemporario),
   nome       |-> fillna_str(r.nome, NomeDesconhecido),
   email      |-> r.email,
   estado     |-> corrigir_estado(r.estado)]

padronizar_produto(r) ==
  [id_produto   |-> r.id_produto,
   nome_produto |-> fillna_str(r.nome_produto, ProdutoSemNome),
   preco        |-> corrigir_preco(r.preco),
   categoria    |-> r.categoria]

padronizar_venda(r, hoje) ==
  [r EXCEPT !.data_venda = corrigir_data_futura(to_datetime(r.data_venda, "coerce"), hoje),
            !.quantidade = corrigir_quantidade(r.quantidade)]

padronizar_clientes(c) == [i \in DOMAIN c |-> padronizar_cliente(c[i])]

padronizar_produtos(p) == [i \in DOMAIN p |-> padronizar_produto(p[i])]

RECURSIVE sem_NaT(_)
sem_NaT(v) ==
  IF v = <<>> THEN <<>>
  ELSE (IF Head(v).data_venda = NaT THEN <<>> ELSE <<Head(v)>>) \o sem_NaT(Tail(v))

\* rows with an unparsable date dropped (dropna)
padronizar_vendas_dropna(v, hoje) == sem_NaT([i \in DOMAIN v |-> padronizar_venda(v[i], hoje)])

padronizar_vendas(v, hoje) == [i \in DOMAIN v |-> padronizar_venda(v[i], hoje)]

\* the phase raises iff one of its conversions raises
padronizar_raises(c, p, v) ==
  \/ \E i \in DOMAIN c : astype_int_raises(fillna(c[i].id_cliente, IdNuloTemporario))
  \/ \E i \in DOMAIN v : to_datetime_raises(v[i].data_venda, "coerce")

\* counts printed by the phase
conta_estados_na(c) == Cardinality({i \in DOMAIN c : c[i].estado = EstadoNA})

conta_datas_futuras(v, hoje) ==
  Cardinality({i \in DOMAIN v : data_futura(to_datetime(v[i].data_venda, "coerce"), hoje)})

(***************************************************************************)
(* 2. remover_duplicatas_com_logica                                        *)
(***************************************************************************)
\* keep='last'
duplicated_id_last(c) ==
  [i \in DOMAIN c |-> \E j \in (i+1)..Len(c) : c[j].id_cliente = c[i].id_cliente]

\* Series.duplicated() on the column id_cliente / email, keep='first'
duplicated_id(c) == [i \in DOMAIN c |-> \E j \in 1..(i-1) : c[j].id_cliente = c[i].id_cliente]

duplicated_email(c) == [i \in DOMAIN c |-> \E j \in 1..(i-1) : c[j].email = c[i].email]

\* keep=False: every row that has a copy is marked
duplicated_keep_false(df) == [i \in DOMAIN df |-> \E j \in DOMAIN df : j # i /\ df[j] = df[i]]

\* DataFrame.duplicated() on all columns, keep='first'
duplicated(df) == [i \in DOMAIN df |-> \E j \in 1..(i-1) : df[j] = df[i]]

Nao(m) == [i \in DOMAIN m |-> ~m[i]]

conta(m) == Cardinality({i \in DOMAIN m : m[i]})

RECURSIVE inserir_por_id(_, _)
inserir_por_id(r, c) ==
  IF c = <<>> THEN <<r>>
  ELSE IF r.id_cliente < Head(c).id_cliente THEN <<r>> \o c
  ELSE <<Head(c)>> \o inserir_por_id(r, Tail(c))

RECURSIVE sort_values_id(_)
sort_values_id(c) == IF c = <<>> THEN <<>> ELSE inserir_por_id(c[Len(c)], sort_values_id(SubSeq(c, 1, Len(c) - 1)))

\* the table sorted by id_cliente before keep='first'
drop_duplicates_id_ordenado(c) == Mask(sort_values_id(c), Nao(duplicated_id(sort_values_id(c))))

\* df_c.drop_duplicates(subset=['id_cliente'], keep='first')
drop_duplicates_id(c) == Mask(c, Nao(duplicated_id(c)))

\* df_c_limpo[df_c_limpo['id_cliente'] != 0]
remover_id_nulo(c) == Mask(c, [i \in DOMAIN c |-> c[i].id_cliente # IdNuloTemporario])

\* subset=['id_cliente'] in place of subset=['email']
drop_duplicates_email_por_id(c) == Mask(c, Nao(duplicated_id(c)))

\* df_c_limpo.drop_duplicates(subset=['email'], keep='first')
drop_duplicates_email(c) == Mask(c, Nao(duplicated_email(c)))

\* df.drop_duplicates()
drop_duplicates(df) == Mask(df, Nao(duplicated(df)))

\* Etapa 1 of the customer table
clientes_etapa1(c) == remover_id_nulo(drop_duplicates_id(c))

\* the e-mail pass run on the batch received, before the id pass
deduplicar_clientes_email_primeiro(c) == remover_id_nulo(drop_duplicates_id(drop_duplicates_email(c)))

deduplicar_clientes(c) == drop_duplicates_email(clientes_etapa1(c))

\* "Duplicatas/Nulos removidos": computed from the module-level df_clientes
relato_dups_id(c) == Len(df_clientes) - Len(clientes_etapa1(c))

(***************************************************************************)
(* 3. corrigir_e_validar_relacionamentos                                   *)
(***************************************************************************)
clientes_validos_id(c) == {c[i].id_cliente : i \in DOMAIN c}

produtos_validos_id(p) == {p[i].id_produto : i \in DOMAIN p}

isin_cliente(v, ids) == [i \in DOMAIN v |-> v[i].id_cliente \in ids]

isin_produto(v, ids) == [i \in DOMAIN v |-> v[i].id_produto \in ids]

\* df_v[~df_v['id_cliente'].isin(clientes_validos_id)]
vendas_clientes_invalidos(v, c) == Mask(v, Nao(isin_cliente(v, clientes_validos_id(c))))

\* df_v[df_v['id_cliente'].isin(clientes_validos_id)]
filtrar_fk_cliente(v, c) == Mask(v, isin_cliente(v, clientes_validos_id(c)))

\* df_v in place of df_v_limpo
vendas_produtos_invalidos_de_df_v(v, c, p) == Mask(v, Nao(isin_produto(v, produtos_validos_id(p))))

\* df_v_limpo[~df_v_limpo['id_produto'].isin(produtos_validos_id)]
vendas_produtos_invalidos(v, c, p) ==
  Mask(filtrar_fk_cliente(v, c), Nao(isin_produto(filtrar_fk_cliente(v, c), produtos_validos_id(p))))

\* df_v in place of df_v_limpo
filtrar_fk_produto_de_df_v(v, c, p) == Mask(v, isin_produto(v, produtos_validos_id(p)))

\* df_v_limpo[df_v_limpo['id_produto'].isin(produtos_validos_id)]
filtrar_fk_produto(v, c, p) ==
  Mask(filtrar_fk_cliente(v, c), isin_produto(filtrar_fk_cliente(v, c), produtos_validos_id(p)))

valor_calculado(r) == r.quantidade * r.valor_unitario

\* >= in place of >
inconsistente_valor_ou_igual(r) == Abs(r.valor_total - valor_calculado(r)) >= Tolerancia

\* np.abs(valor_total - valor_calculado) > 0.01
inconsistente_valor(r) == Abs(r.valor_total - valor_calculado(r)) > Tolerancia

\* only the rows outside the tolerance overwritten
sobrescrever_so_inconsistentes(r) ==
  IF inconsistente_valor(r) THEN [r EXCEPT !.valor_total = valor_calculado(r)] ELSE r

\* the wrong column multiplied
sobrescrever_coluna_errada(r) == [r EXCEPT !.valor_total = r.quantidade * r.valor_total]

\* df_v_limpo['valor_total'] = df_v_limpo['valor_calculado']
sobrescrever_valor_total(r) == [r EXCEPT !.valor_total = valor_calculado(r)]

conta_inconsistentes(v) == Cardinality({i \in DOMAIN v : inconsistente_valor(v[i])})

\* the sales outside the tolerance dropped, the others overwritten
reconciliar_vendas_descartando(v, c, p) ==
  LET f == filtrar_fk_produto(v, c, p)
      m == Mask(f, [i \in DOMAIN f |-> ~inconsistente_valor(f[i])])
  IN [i \in DOMAIN m |-> sobrescrever_valor_total(m[i])]

reconciliar_vendas(v, c, p) ==
  [i \in DOMAIN filtrar_fk_produto(v, c, p) |-> sobrescrever_valor_total(filtrar_fk_produto(v, c, p)[i])]

\* the customers given back are the customers that some sale references
devolver_so_clientes_com_venda(c, p, v) ==
  [c |-> Mask(c, [i \in DOMAIN c |-> \E k \in DOMAIN v : v[k].id_cliente = c[i].id_cliente]),
   p |-> p,
   v |-> reconciliar_vendas(v, c, p)]

\* return df_c, df_p, df_v_limpo.reset_index(drop=True)
corrigir_e_validar_relacionamentos(c, p, v) ==
  [c |-> c, p |-> p, v |-> reconciliar_vendas(v, c, p)]

(***************************************************************************)
(* pipeline_ingestao.py: executar_pipeline_ingestao                        *)
(*                                                                         *)
(* A file of the list is [nome, conteudo]: its name after the last '/' and *)
(* what reading and validating it gives.  Two entries with one name and    *)
(* different contents are files of different directories.                  *)
(***************************************************************************)
MaxArquivos == 3      \* paths in file_paths

\* DATASET_MAP: file name -> dataset name
DATASET_MAP ==
  [n \in {"clientes.csv", "produtos.csv", "vendas.csv"} |->
     CASE n = "clientes.csv" -> "Clientes"
       [] n = "produtos.csv" -> "Produtos"
       [] n = "vendas.csv" -> "Vendas"]

\* "ilegivel": pd.read_csv (or the data_venda conversion) raises;
\* "valido": the schema accepts the table;
\* "invalido": the schema rejects it, with no more failure cases than rows;
\* "invalido_iloc": the schema rejects it, with more failure cases than rows
Conteudos == {"ilegivel", "valido", "invalido", "invalido_iloc"}

\* pd.read_csv(file_path) and the conversion of data_venda: "ok" or the
\* class of the exception raised
carregar(a) == IF a.conteudo = "ilegivel" THEN "Exception" ELSE "ok"

\* schema.validate(df, lazy=...): "ok", or the class of the exception
\* raised: SchemaErrors when lazy, SchemaError when not
validate(a, lazy) ==
  IF a.conteudo = "valido" THEN "ok"
  ELSE IF lazy THEN "SchemaErrors" ELSE "SchemaError"

\* df.iloc[err.failure_cases.index]: "ok" or IndexError
iloc_failure_cases(a) == IF a.conteudo = "invalido_iloc" THEN "IndexError" ELSE "ok"

\* except pa.errors.SchemaErrors
captura_SchemaErrors(exc) == exc = "SchemaErrors"

\* except Exception narrowed to the schema errors of the lazy validation
captura_so_SchemaErrors(exc) == exc = "SchemaErrors"

\* except Exception as e
captura_Exception(exc) == exc \in {"Exception", "SchemaErrors", "SchemaError", "IndexError"}

\* d[k] = v
atribuir(d, k, v) == (k :> v) @@ d

\* the body of the try statement of lines 105-143 for a mapped file: the two
\* maps it leaves and the exception that leaves it ("ok" when none does)
corpo_try(a, validos, rejeitados) ==
  LET ds == DATASET_MAP[a.nome] IN
  IF carregar(a) # "ok"
    THEN [validos |-> validos, rejeitados |-> rejeitados, exc |-> carregar(a)]
  ELSE IF validate(a, TRUE) = "ok"
    THEN IF validate(a, FALSE) = "ok"
           THEN [validos |-> atribuir(validos, ds, a.conteudo), rejeitados |-> rejeitados, exc |-> "ok"]
           ELSE [validos |-> validos, rejeitados |-> rejeitados, exc |-> validate(a, FALSE)]
  ELSE IF ~captura_SchemaErrors(validate(a, TRUE))
    THEN [validos |-> validos, rejeitados |-> rejeitados, exc |-> validate(a, TRUE)]
  ELSE IF iloc_failure_cases(a) # "ok"
    THEN [validos |-> validos, rejeitados |-> rejeitados, exc |-> iloc_failure_cases(a)]
  ELSE LET rej == atribuir(rejeitados, ds, "linhas") IN
       IF validate(a, FALSE) = "ok"
         THEN [validos |-> atribuir(validos, ds, a.conteudo), rejeitados |-> rej, exc |-> "ok"]
       ELSE IF captura_SchemaErrors(validate(a, FALSE))
         THEN [validos |-> validos, rejeitados |-> rej, exc |-> "ok"]
         ELSE [validos |-> validos, rejeitados |-> rej, exc |-> validate(a, FALSE)]

(***************************************************************************)
(* State                                                                   *)
(***************************************************************************)
VARIABLES
  df_c, df_p, df_v,   \* the three tables being corrected
  pc,                 \* next phase: "padronizar", "deduplicar", "reconciliar", "fim", "erro"
  passada,            \* 1: first run; 2: run on the output of the first run
  hoje,               \* the date datetime.now().date() returns
  orig,               \* the tables given to the first run
  ent,                \* the tables given to the current run
  pad,                \* the tables returned by the Standardizer
  ded,                \* the tables returned by the Deduplicator
  rel,                \* the counts printed by the phases of the current run
  file_paths,         \* the files given to executar_pipeline_ingestao
  pos,                \* position of the for loop in file_paths
  dataframes_validos,     \* dataset name -> validated table
  dataframes_rejeitados,  \* dataset name -> rejected rows ("linhas") or "None"
  ing                 \* "parado", "laco", "fim", "abortado" (an exception left the function)

ingestao == <<file_paths, pos, dataframes_validos, dataframes_rejeitados, ing>>

correcao == <<df_c, df_p, df_v, pc, passada, hoje, orig, ent, pad, ded, rel>>

vars == <<df_c, df_p, df_v, pc, passada, hoje, orig, ent, pad, ded, rel,
          file_paths, pos, dataframes_validos, dataframes_rejeitados, ing>>

Tabelas(c, p, v) == [c |-> c, p |-> p, v |-> v]

RelZero ==
  [estados_na |-> 0, datas_futuras |-> 0,
   dups_id |-> 0, dups_email |-> 0, dups_p |-> 0, dups_v |-> 0,
   fk_cliente |-> 0, fk_produto |-> 0, valor_corrigidos |-> 0]

(***************************************************************************)
(* Input batches                                                           *)
(***************************************************************************)
Cliente(id, n, e, uf) == [id_cliente |-> id, nome |-> n, email |-> e, estado |-> uf]

Produto(id, n, pr, cat) == [id_produto |-> id, nome_produto |-> n, preco |-> pr, categoria |-> cat]

Venda(id, idc, idp, q, vu, vt, d, s) ==
  [id_venda |-> id, id_cliente |-> idc, id_produto |-> idp, quantidade |-> q,
   valor_unitario |-> vu, valor_total |-> vt, data_venda |-> DataStr(d), status |-> s]

\* customer rows: every id (missing, 0, valid) with every email and two states,
\* plus rows with a missing name, an invalid state and a missing state
LinhasClientes ==
  {Cliente(id, "Ana", e, uf) : id \in {NaN, 0, 1, 2}, e \in {"a@a.com", "b@b.com"}, uf \in {"SP", "RJ"}}
  \cup {Cliente(1, NaNStr, "a@a.com", "SP"), Cliente(2, "Diana", "d@d.com", "XXX"),
        Cliente(2, "Eva", "b@b.com", NaNStr)}

LinhasProdutos ==
  {Produto(id, n, pr, "Livro") : id \in {101, 102}, n \in {"Mouse", NaNStr},
                                 pr \in {-50000, 0, PrecoMinimo, 20000}}

\* sale rows: every combination of valid, placeholder and dangling keys; zero and
\* negative quantities; stored totals equal to, near and far from 2 x 50.0;
\* past, future and unparsable dates
LinhasVendas ==
  {Venda(1001, idc, idp, 2, 50000, vt, "2023-01-10", "Pendente") :
     idc \in {0, 1, 2}, idp \in {101, 999}, vt \in {0, 100000}}
  \cup {Venda(1002, 1, 102, q, 50000, vt, "2023-01-10", "Concluida") :
     q \in {-1, 0, 1}, vt \in {50000, -50000}}
  \cup {Venda(1003, 1, 101, 2, 50000, vt, "2023-12-31", "Cancelada") :
     vt \in {99989, 99990, 100005, 100010, 100011}}
  \cup {Venda(1004, 1, 101, 1, 50000, 50000, d, "Pendente") :
     d \in {"2023-12-31", "2025-01-01", "2030-06-01", "31/31/2023"}}

\* small row sets for the runs that vary the three tables together
LinhasClientesP ==
  {Cliente(1, "Ana", "a@a.com", "SP"), Cliente(2, "Bruno", "a@a.com", "RJ"),
   Cliente(NaN, "Carlos", "b@b.com", "SP"), Cliente(2, NaNStr, "b@b.com", "XXX")}

TabelasProdutosP ==
  { <<>>,
    <<Produto(101, "Mouse", 20000, "Livro")>>,
    <<Produto(101, "Mouse", 20000, "Livro"), Produto(102, NaNStr, -50000, "Livro")>>,
    <<Produto(101, "Mouse", 20000, "Livro"), Produto(101, "Mouse", 20000, "Livro"),
      Produto(102, "Teclado", 0, "Livro")>> }

LinhasVendasP ==
  {Venda(1001, 1, 101, 2, 50000, 0, "2023-01-10", "Pendente"),
   Venda(1001, 1, 101, 2, 50000, 100000, "2023-01-10", "Pendente"),
   Venda(1002, 2, 101, 2, 50000, 100000, "2023-01-10", "Pendente"),
   Venda(1003, 0, 101, 2, 50000, 100000, "2023-01-10", "Pendente"),
   Venda(1004, 1, 999, 2, 50000, 100000, "2023-01-10", "Pendente"),
   Venda(1005, 999, 999, 2, 50000, 100000, "2023-01-10", "Pendente"),
   Venda(1006, 1, 102, 0, 50000, 50000, "2030-06-01", "Concluida"),
   Venda(1007, 2, 102, -1, 50000, 0, "31/31/2023", "Cancelada")}

\* the rows of the runs checked under fairness: a missing id, a repeated
\* email, a missing name and an invalid state; a total to correct, two
\* dangling keys, a zero quantity with a future date, an unparsable date
LinhasClientesJ ==
  {Cliente(1, "Ana", "a@a.com", "SP"), Cliente(NaN, "Carlos", "b@b.com", "SP"),
   Cliente(2, NaNStr, "a@a.com", "XXX")}

LinhasVendasJ ==
  {Venda(1001, 1, 101, 2, 50000, 0, "2023-01-10", "Pendente"),
   Venda(1005, 999, 999, 0, 50000, 100000, "2030-06-01", "Pendente"),
   Venda(1007, 2, 102, -1, 50000, 0, "31/31/2023", "Cancelada")}

\* product rows of the runs that vary products and sales: two ids, prices
\* that differ on input and prices that the Standardizer makes equal
LinhasProdutosD ==
  {Produto(id, "Mouse", pr, "Livro") : id \in {101, 102}, pr \in {-50000, 0, 20000}}

\* fixed tables for the runs that vary one table: customer 1 survives, the
\* missing id, the repeated id 1 and the repeated email of customer 2 do not
ClientesFixos ==
  <<Cliente(1, "Ana", "a@a.com", "SP"), Cliente(NaN, "Carlos", "c@c.com", "SP"),
    Cliente(1, "Ana", "a@a.com", "RJ"), Cliente(2, "Bruno", "a@a.com", "RJ")>>

ProdutosFixos == <<Produto(101, "Laptop", 1000500, "Livro"), Produto(102, NaNStr, -50000, "Livro")>>

VendasFixas ==
  <<Venda(1001, 1, 101, 2, 50000, 0, "2023-01-10", "Pendente"),
    Venda(1002, 999, 102, 1, 50000, 50000, "2030-06-01", "Pendente")>>

InitCom(c, p, v) ==
  /\ df_c = c /\ df_p = p /\ df_v = v
  /\ pc = "padronizar"
  /\ passada = 1
  /\ hoje \in DiasHoje
  /\ orig = Tabelas(c, p, v)
  /\ ent = Tabelas(c, p, v)
  /\ pad = Tabelas(<<>>, <<>>, <<>>)
  /\ ded = Tabelas(<<>>, <<>>, <<>>)
  /\ rel = RelZero
  /\ file_paths = <<>> /\ pos = 1
  /\ dataframes_validos = <<>> /\ dataframes_rejeitados = <<>>
  /\ ing = "parado"

Init ==
  \E c \in SeqAte(LinhasClientesP, MaxLinhas), p \in TabelasProdutosP,
     v \in SeqAte(LinhasVendasP, MaxLinhas) : InitCom(c, p, v)

InitJusto ==
  \E c \in SeqAte(LinhasClientesJ, MaxLinhas), p \in TabelasProdutosP,
     v \in SeqAte(LinhasVendasJ, MaxLinhas) : InitCom(c, p, v)

InitDedup ==
  \E p \in SeqAte(LinhasProdutosD, MaxLinhas), v \in SeqAte(LinhasVendasP, MaxLinhas) :
     InitCom(ClientesFixos, p, v)

InitClientes == \E c \in SeqAte(LinhasClientes, MaxClientes) : InitCom(c, ProdutosFixos, VendasFixas)

InitProdutos == \E p \in SeqAte(LinhasProdutos, MaxProdutos) : InitCom(ClientesFixos, p, VendasFixas)

InitVendas == \E v \in SeqAte(LinhasVendas, MaxVendas) : InitCom(ClientesFixos, ProdutosFixos, v)

(***************************************************************************)
(* Actions                                                                 *)
(***************************************************************************)
\* padronizar_formatos_e_preencher_nulos(df_c, df_p, df_v)
Padronizar ==
  /\ pc = "padronizar"
  /\ IF padronizar_raises(df_c, df_p, df_v)
       THEN /\ pc' = "erro"
            /\ UNCHANGED <<df_c, df_p, df_v, pad, rel>>
       ELSE /\ df_c' = padronizar_clientes(df_c)
            /\ df_p' = padronizar_produtos(df_p)
            /\ df_v' = padronizar_vendas(df_v, hoje)
            /\ pad' = Tabelas(df_c', df_p', df_v')
            /\ rel' = [rel EXCEPT !.estados_na = conta_estados_na(df_c'),
                                  !.datas_futuras = conta_datas_futuras(df_v, hoje)]
            /\ pc' = "deduplicar"
  /\ UNCHANGED <<passada, hoje, orig, ent, ded>>
  /\ UNCHANGED ingestao

\* remover_duplicatas_com_logica(df_c, df_p, df_v)
Deduplicar ==
  /\ pc = "deduplicar"
  /\ df_c' = deduplicar_clientes(df_c)
  /\ df_p' = drop_duplicates(df_p)
  /\ df_v' = drop_duplicates(df_v)
  /\ ded' = Tabelas(df_c', df_p', df_v')
  /\ rel' = [rel EXCEPT !.dups_id = relato_dups_id(df_c),
                        !.dups_email = conta(duplicated_email(clientes_etapa1(df_c))),
                        !.dups_p = conta(duplicated(df_p)),
                        !.dups_v = conta(duplicated(df_v))]
  /\ pc' = "reconciliar"
  /\ UNCHANGED <<passada, hoje, orig, ent, pad>>
  /\ UNCHANGED ingestao

\* corrigir_e_validar_relacionamentos(df_c, df_p, df_v)
Reconciliar ==
  /\ pc = "reconciliar"
  /\ df_c' = corrigir_e_validar_relacionamentos(df_c, df_p, df_v).c
  /\ df_p' = corrigir_e_validar_relacionamentos(df_c, df_p, df_v).p
  /\ df_v' = corrigir_e_validar_relacionamentos(df_c, df_p, df_v).v
  /\ rel' = [rel EXCEPT !.fk_cliente = Len(vendas_clientes_invalidos(df_v, df_c)),
                        !.fk_produto = Len(vendas_produtos_invalidos(df_v, df_c, df_p)),
                        !.valor_corrigidos = conta_inconsistentes(filtrar_fk_produto(df_v, df_c, df_p))]
  /\ pc' = "fim"
  /\ UNCHANGED <<passada, hoje, orig, ent, pad, ded>>
  /\ UNCHANGED ingestao

\* the three phases are run again, the same day or later, on the tables the
\* first run returned
Reexecutar ==
  /\ pc = "fim"
  /\ passada = 1
  /\ passada' = 2
  /\ hoje' \in {d \in DiasHoje : d >= hoje}
  /\ ent' = Tabelas(df_c, df_p, df_v)
  /\ pad' = Tabelas(<<>>, <<>>, <<>>)
  /\ ded' = Tabelas(<<>>, <<>>, <<>>)
  /\ rel' = RelZero
  /\ pc' = "padronizar"
  /\ UNCHANGED <<df_c, df_p, df_v, orig>>
  /\ UNCHANGED ingestao

(***************************************************************************)
(* executar_pipeline_ingestao: one action per way through the loop body    *)
(***************************************************************************)
Arquivo(n, k) == [nome |-> n, conteudo |-> k]

\* the files a path of the list may name; what an unmapped file holds is
\* never read
Arquivos ==
  {Arquivo(n, k) : n \in {"clientes.csv", "produtos.csv", "vendas.csv"}, k \in Conteudos}
  \cup {Arquivo("logistica.csv", "valido")}

InitIngestao ==
  /\ df_c = <<>> /\ df_p = <<>> /\ df_v = <<>>
  /\ pc = "fim" /\ passada = 2 /\ hoje = 2
  /\ orig = Tabelas(<<>>, <<>>, <<>>) /\ ent = Tabelas(<<>>, <<>>, <<>>)
  /\ pad = Tabelas(<<>>, <<>>, <<>>) /\ ded = Tabelas(<<>>, <<>>, <<>>)
  /\ rel = RelZero
  /\ file_paths \in SeqAte(Arquivos, MaxArquivos)
  /\ pos = 1
  /\ dataframes_validos = <<>> /\ dataframes_rejeitados = <<>>
  /\ ing = "laco"

\* if file_name not in DATASET_MAP: continue
ArquivoNaoMapeado ==
  /\ ing = "laco" /\ pos <= Len(file_paths)
  /\ file_paths[pos].nome \notin DOMAIN DATASET_MAP
  /\ pos' = pos + 1
  /\ UNCHANGED <<file_paths, dataframes_validos, dataframes_rejeitados, ing>>
  /\ UNCHANGED correcao

\* the try statement ends without an exception
ArquivoProcessado ==
  /\ ing = "laco" /\ pos <= Len(file_paths)
  /\ file_paths[pos].nome \in DOMAIN DATASET_MAP
  /\ LET r == corpo_try(file_paths[pos], dataframes_validos, dataframes_rejeitados) IN
       /\ r.exc = "ok"
       /\ dataframes_validos' = r.validos
       /\ dataframes_rejeitados' = r.rejeitados
  /\ pos' = pos + 1
  /\ UNCHANGED <<file_paths, ing>>
  /\ UNCHANGED correcao

\* an exception leaves the try body and except Exception records the dataset
ArquivoComErro ==
  /\ ing = "laco" /\ pos <= Len(file_paths)
  /\ file_paths[pos].nome \in DOMAIN DATASET_MAP
  /\ LET r == corpo_try(file_paths[pos], dataframes_validos, dataframes_rejeitados) IN
       /\ r.exc # "ok"
       /\ dataframes_validos' = r.validos
       /\ IF captura_Exception(r.exc)
            THEN /\ dataframes_rejeitados' =
                      atribuir(r.rejeitados, DATASET_MAP[file_paths[pos].nome], "None")
                 /\ pos' = pos + 1
                 /\ ing' = ing
            ELSE /\ dataframes_rejeitados' = r.rejeitados
                 /\ pos' = pos
                 /\ ing' = "abortado"
  /\ UNCHANGED file_paths
  /\ UNCHANGED correcao

\* return dataframes_validos, dataframes_rejeitados
Retornar ==
  /\ ing = "laco" /\ pos > Len(file_paths)
  /\ ing' = "fim"
  /\ UNCHANGED <<file_paths, pos, dataframes_validos, dataframes_rejeitados>>
  /\ UNCHANGED correcao

NextIngestao == ArquivoNaoMapeado \/ ArquivoProcessado \/ ArquivoComErro \/ Retornar

SpecIngestao == InitIngestao /\ [][NextIngestao]_vars

Next == Padronizar \/ Deduplicar \/ Reconciliar \/ Reexecutar

Spec == Init /\ [][Next]_vars

SpecClientes == InitClientes /\ [][Next]_vars

SpecProdutos == InitProdutos /\ [][Next]_vars

SpecVendas == InitVendas /\ [][Next]_vars

SpecDedup == InitDedup /\ [][Next]_vars

\* the phases are straight-line code: an enabled phase runs
SpecJusto == InitJusto /\ [][Next]_vars /\ WF_vars(Next)

TypeOK ==
  /\ pc \in {"padronizar", "deduplicar", "reconciliar", "fim", "erro"}
  /\ passada \in {1, 2}
  /\ hoje \in DiasHoje

(***************************************************************************)
(* Properties                                                              *)
(***************************************************************************)
IdsVendaUnicos(v) == \A i, j \in DOMAIN v : v[i].id_venda = v[j].id_venda => i = j

\* C1 as stated: a second run on the output of a full run returns the three
\* tables unchanged, removes no duplicate row, discards no sale and corrects
\* no valor_total, for any input batches.
Idempotencia ==
  (pc = "fim" /\ passada = 2) =>
    /\ df_c = ent.c /\ df_p = ent.p /\ df_v = ent.v
    /\ Len(ded.c) = Len(pad.c) /\ Len(ded.p) = Len(pad.p) /\ Len(ded.v) = Len(pad.v)
    /\ rel.dups_email = 0 /\ rel.dups_p = 0 /\ rel.dups_v = 0
    /\ rel.fk_cliente = 0 /\ rel.fk_produto = 0
    /\ rel.valor_corrigidos = 0

\* C1 amended: when the id_venda values of the input sale batch are pairwise
\* distinct, a second run on the output of a full run returns the three tables
\* unchanged, removes no row, discards no sale and corrects no valor_total.
IdempotenciaIdsUnicos ==
  (pc = "fim" /\ passada = 2 /\ IdsVendaUnicos(orig.v)) =>
    /\ Tabelas(df_c, df_p, df_v) = ent
    /\ Len(ded.c) = Len(pad.c) /\ Len(ded.p) = Len(pad.p) /\ Len(ded.v) = Len(pad.v)
    /\ rel.dups_email + rel.dups_p + rel.dups_v = 0
    /\ rel.fk_cliente + rel.fk_produto = 0
    /\ rel.valor_corrigidos = 0

\* a second run has ended on the output of a first run that removed a
\* customer, discarded or corrected a sale, over sales with distinct ids
IdempotenciaWitness ==
  /\ pc = "fim" /\ passada = 2
  /\ IdsVendaUnicos(orig.v)
  /\ Len(orig.v) = 2 /\ Len(df_v) = 1
  /\ Len(df_c) < Len(orig.c)
  /\ \E i \in DOMAIN orig.v : orig.v[i].valor_total # orig.v[i].quantidade * orig.v[i].valor_unitario

\* C2: after the full pipeline every output sale has the id_cliente of an
\* output customer row and the id_produto of an output product row.
FechamentoReferencial ==
  pc = "fim" =>
    \A i \in DOMAIN df_v :
      /\ \E k \in DOMAIN df_c : df_c[k].id_cliente = df_v[i].id_cliente
      /\ \E k \in DOMAIN df_p : df_p[k].id_produto = df_v[i].id_produto

\* a first run has ended with a sale kept, on input holding a customer with a
\* missing id and a sale that references the placeholder id
FechamentoReferencialWitness ==
  /\ pc = "fim" /\ passada = 1
  /\ Len(df_v) >= 1
  /\ Len(df_v) < Len(orig.v)
  /\ \E k \in DOMAIN orig.c : orig.c[k].id_cliente = NaN
  /\ \E i \in DOMAIN orig.v : orig.v[i].id_cliente = IdNuloTemporario

\* C3: after Standardizer and Deduplicator no two customer rows share an
\* id_cliente, no two share an email, and none has a missing or placeholder id.
Unicidade ==
  pc \in {"reconciliar", "fim"} =>
    /\ \A i, j \in DOMAIN df_c :
         i # j => /\ df_c[i].id_cliente # df_c[j].id_cliente
                  /\ df_c[i].email # df_c[j].email
    /\ \A i \in DOMAIN df_c : df_c[i].id_cliente \notin {NaN, IdNuloTemporario}

\* the Deduplicator has returned one customer from three: one had a missing
\* id and another a different id with the survivor's email
UnicidadeWitness ==
  /\ pc = "reconciliar" /\ passada = 1
  /\ Len(ent.c) = 3 /\ Len(df_c) = 1
  /\ \E i \in DOMAIN ent.c : ent.c[i].id_cliente = NaN
  /\ \E j \in DOMAIN ent.c :
       /\ ent.c[j].id_cliente \notin {NaN, IdNuloTemporario, df_c[1].id_cliente}
       /\ ent.c[j].email = df_c[1].email

\* C4: every sale row returned by the Reconciler has
\* valor_total = quantidade x valor_unitario.
ConsistenciaAritmetica ==
  pc = "fim" =>
    \A i \in DOMAIN df_v : df_v[i].valor_total = df_v[i].quantidade * df_v[i].valor_unitario

\* the Reconciler has returned two sales: one stored 0.0 for 2 x 50.0 and
\* the other a total 0.005 away from it
ConsistenciaAritmeticaWitness ==
  /\ pc = "fim" /\ passada = 1
  /\ Len(ded.v) = 2 /\ Len(df_v) = 2
  /\ ded.v[1].valor_total = 0 /\ df_v[1].valor_total = 100000
  /\ ded.v[2].valor_total = 100005

\* C5 as stated: every sale row of the pipeline output has data_venda <= hoje,
\* for past, future and unparsable input dates.
LimiteTemporal ==
  pc = "fim" =>
    \A i \in DOMAIN df_v :
      "ts" \in DOMAIN df_v[i].data_venda /\ df_v[i].data_venda.ts <= hoje

NaoParsavel(x) ==
  \/ x = NaT
  \/ "str" \in DOMAIN x /\ x.str \notin {"2023-01-10", "2023-12-31", "2025-01-01", "2030-06-01"}

\* C5 amended: every sale row of the pipeline output has a data_venda that is
\* missing or <= hoje; the Standardizer leaves a date missing exactly where
\* the input date is unparsable.
LimiteTemporalOuAusente ==
  /\ pc = "fim" =>
       \A i \in DOMAIN df_v :
         \/ df_v[i].data_venda = NaT
         \/ "ts" \in DOMAIN df_v[i].data_venda /\ df_v[i].data_venda.ts <= hoje
  /\ pc = "deduplicar" =>
       \A i \in DOMAIN df_v :
         i \in DOMAIN ent.v /\ (df_v[i].data_venda = NaT <=> NaoParsavel(ent.v[i].data_venda))

\* the pipeline has returned a sale whose date was unparsable and a sale
\* whose future date was set to hoje
LimiteTemporalWitness ==
  /\ pc = "fim" /\ passada = 1
  /\ Len(ent.v) = 2 /\ Len(df_v) = 2
  /\ ent.v[1].data_venda = DataStr("31/31/2023") /\ df_v[1].data_venda = NaT
  /\ ent.v[2].data_venda = DataStr("2030-06-01") /\ df_v[2].data_venda = Timestamp(hoje)

PrimeiroComId(c, v) ==
  CHOOSE i \in DOMAIN c : c[i].id_cliente = v /\ \A j \in 1..(i-1) : c[j].id_cliente # v

\* C7: after Standardizer and Deduplicator each id_cliente value has at most
\* one surviving row, a surviving row carries the name, email and state (as
\* standardized) of the first input row with its id, and no row with the
\* placeholder of a missing id survives.
PrimeiraOcorrencia ==
  pc = "reconciliar" =>
    \A i \in DOMAIN df_c :
      LET v == df_c[i].id_cliente IN
        /\ v \notin {NaN, IdNuloTemporario}
        /\ \A j \in DOMAIN df_c : df_c[j].id_cliente = v => j = i
        /\ \E k \in DOMAIN ent.c : ent.c[k].id_cliente = v
        /\ LET r == ent.c[PrimeiroComId(ent.c, v)] IN
             /\ df_c[i].email = r.email
             /\ df_c[i].nome = (IF r.nome = NaNStr THEN NomeDesconhecido ELSE r.nome)
             /\ df_c[i].estado \in {r.estado, EstadoNA}

\* the batch [1 .. SP, missing id, 1 .. RJ] has been deduplicated to its
\* first row
PrimeiraOcorrenciaWitness ==
  /\ pc = "reconciliar" /\ passada = 1
  /\ Len(ent.c) = 3
  /\ ent.c[1].id_cliente = 1 /\ ent.c[2].id_cliente = NaN /\ ent.c[3].id_cliente = 1
  /\ ent.c[1].estado = "SP" /\ ent.c[3].estado = "RJ"
  /\ df_c = <<Cliente(1, "Ana", ent.c[1].email, "SP")>>

\* C8: after the Standardizer every product has preco > 0: an input
\* preco <= 0 has become 0.01 and an input preco > 0 is unchanged.
PrecoPositivo ==
  /\ pc = "deduplicar" =>
       /\ Len(df_p) = Len(ent.p)
       /\ \A i \in DOMAIN ent.p :
            /\ ent.p[i].preco <= 0 => df_p[i].preco = PrecoMinimo
            /\ ent.p[i].preco > 0 => df_p[i].preco = ent.p[i].preco
  /\ pc \in {"deduplicar", "reconciliar", "fim"} =>
       \A i \in DOMAIN df_p : df_p[i].preco > 0

\* the Standardizer has returned products that arrived with a negative, a
\* zero and a positive preco
PrecoPositivoWitness ==
  /\ pc = "deduplicar" /\ passada = 1
  /\ Len(ent.p) = 3
  /\ ent.p[1].preco = -50000 /\ ent.p[2].preco = 0 /\ ent.p[3].preco = 20000
  /\ df_p[1].preco = PrecoMinimo /\ df_p[2].preco = PrecoMinimo /\ df_p[3].preco = 20000

\* C9: the Standardizer returns, for each table, as many rows as it received,
\* the i-th row keeping the key fields (where present) and the fields it does
\* not correct of the i-th input row.
PadronizadorPreservaLinhas ==
  pc = "deduplicar" =>
    /\ Len(df_c) = Len(ent.c) /\ Len(df_p) = Len(ent.p) /\ Len(df_v) = Len(ent.v)
    /\ \A i \in DOMAIN ent.c :
         /\ ent.c[i].id_cliente # NaN => df_c[i].id_cliente = ent.c[i].id_cliente
         /\ ent.c[i].nome # NaNStr => df_c[i].nome = ent.c[i].nome
         /\ df_c[i].email = ent.c[i].email
    /\ \A i \in DOMAIN ent.p :
         /\ df_p[i].id_produto = ent.p[i].id_produto
         /\ df_p[i].categoria = ent.p[i].categoria
         /\ ent.p[i].nome_produto # NaNStr => df_p[i].nome_produto = ent.p[i].nome_produto
    /\ \A i \in DOMAIN ent.v :
         /\ df_v[i].id_venda = ent.v[i].id_venda
         /\ df_v[i].id_cliente = ent.v[i].id_cliente
         /\ df_v[i].id_produto = ent.v[i].id_produto
         /\ df_v[i].valor_unitario = ent.v[i].valor_unitario
         /\ df_v[i].valor_total = ent.v[i].valor_total
         /\ df_v[i].status = ent.v[i].status
         /\ ent.v[i].quantidade # 0 => df_v[i].quantidade = ent.v[i].quantidade

\* the Standardizer has returned tables of two or more rows in which it
\* filled a missing id and a missing product name and blanked an unparsable date
PadronizadorPreservaLinhasWitness ==
  /\ pc = "deduplicar" /\ passada = 1
  /\ Len(ent.c) = 2 /\ Len(ent.p) >= 2 /\ Len(ent.v) = 2
  /\ \E i \in DOMAIN ent.c : ent.c[i].id_cliente = NaN /\ df_c[i].id_cliente = IdNuloTemporario
  /\ \E i \in DOMAIN ent.p : ent.p[i].nome_produto = NaNStr /\ df_p[i].nome_produto = ProdutoSemNome
  /\ \E i \in DOMAIN ent.v : ent.v[i].data_venda = DataStr("31/31/2023") /\ df_v[i].data_venda = NaT

SemValorTotal(v) == [i \in DOMAIN v |-> [v[i] EXCEPT !.valor_total = 0]]

\* C10: the Reconciler reports the number of sales whose id_cliente is no
\* surviving customer id, then the number of remaining sales whose id_produto
\* is no surviving product id; it returns exactly the other sales, in order,
\* and the two counts add up to the number of sales it dropped.
FiltragemSequencial ==
  pc = "fim" =>
    LET idsC == {df_c[k].id_cliente : k \in DOMAIN df_c}
        idsP == {df_p[k].id_produto : k \in DOMAIN df_p}
        semCliente == {i \in DOMAIN ded.v : ded.v[i].id_cliente \notin idsC}
        semProduto == {i \in DOMAIN ded.v : ded.v[i].id_cliente \in idsC /\ ded.v[i].id_produto \notin idsP}
        Resolve(r) == r.id_cliente \in idsC /\ r.id_produto \in idsP
    IN /\ rel.fk_cliente = Cardinality(semCliente)
       /\ rel.fk_produto = Cardinality(semProduto)
       /\ rel.fk_cliente + rel.fk_produto = Len(ded.v) - Len(df_v)
       /\ SemValorTotal(df_v) = SemValorTotal(SelectSeq(ded.v, Resolve))

\* the Reconciler has dropped a sale with both keys dangling and a sale with
\* only the product key dangling
FiltragemSequencialWitness ==
  /\ pc = "fim" /\ passada = 1
  /\ Len(ded.v) = 2 /\ Len(df_v) = 0
  /\ ded.v[1].id_cliente = 2 /\ ded.v[1].id_produto = 999
  /\ ded.v[2].id_cliente = 1 /\ ded.v[2].id_produto = 999
  /\ rel.fk_cliente = 1 /\ rel.fk_produto = 1

Resolvidas(v, c, p) ==
  LET idsC == {c[k].id_cliente : k \in DOMAIN c}
      idsP == {p[k].id_produto : k \in DOMAIN p}
      Resolve(r) == r.id_cliente \in idsC /\ r.id_produto \in idsP
  IN SelectSeq(v, Resolve)

ForaDaTolerancia(r) ==
  \/ r.valor_total - r.quantidade * r.valor_unitario > Tolerancia
  \/ r.quantidade * r.valor_unitario - r.valor_total > Tolerancia

\* C11: the Reconciler returns every sale with both keys resolved, in input
\* order, a mismatching one included, and the count it reports is the number
\* of those sales whose stored valor_total is more than 0.01 away from
\* quantidade x valor_unitario.
CorrigeSemDescartar ==
  pc = "fim" =>
    LET r == Resolvidas(ded.v, ded.c, ded.p) IN
      /\ Len(df_v) = Len(r)
      /\ \A i \in DOMAIN r :
           /\ df_v[i].id_venda = r[i].id_venda
           /\ [df_v[i] EXCEPT !.valor_total = r[i].valor_total] = r[i]
      /\ rel.valor_corrigidos = Cardinality({i \in DOMAIN r : ForaDaTolerancia(r[i])})

\* the Reconciler has kept and counted a sale that stored 0.0 for 2 x 50.0,
\* next to a sale it left uncounted
CorrigeSemDescartarWitness ==
  /\ pc = "fim" /\ passada = 1
  /\ Len(ded.v) = 2 /\ Len(df_v) = 2
  /\ ded.v[2].valor_total = 0 /\ df_v[2].valor_total = 100000
  /\ rel.valor_corrigidos = 1

PrimeiraDeIdValido(c, i) ==
  /\ c[i].id_cliente # IdNuloTemporario
  /\ \A j \in 1..(i-1) : c[j].id_cliente # c[i].id_cliente

\* C12: of the rows the Deduplicator receives, a first occurrence of a valid
\* id is removed exactly when an earlier first occurrence of a valid id has
\* its email; an email shared only with rows the id pass removes does not
\* remove it.
EmailDepoisDeId ==
  pc = "reconciliar" =>
    \A i \in DOMAIN pad.c :
      PrimeiraDeIdValido(pad.c, i) =>
        ((\A k \in DOMAIN df_c : df_c[k] # pad.c[i])
           <=> \E j \in 1..(i-1) : PrimeiraDeIdValido(pad.c, j) /\ pad.c[j].email = pad.c[i].email)

\* of three rows with one email, the first had a missing id, the second
\* survives and the third is removed as its email duplicate
EmailDepoisDeIdWitness ==
  /\ pc = "reconciliar" /\ passada = 1
  /\ Len(pad.c) = 3
  /\ ent.c[1].id_cliente = NaN /\ pad.c[2].id_cliente = 1 /\ pad.c[3].id_cliente = 2
  /\ pad.c[2].email = pad.c[1].email /\ pad.c[3].email = pad.c[1].email
  /\ df_c = <<pad.c[2]>>

RECURSIVE Subsequencia(_, _)
Subsequencia(a, b) ==
  \/ a = <<>>
  \/ /\ b # <<>>
     /\ IF Head(a) = Head(b) THEN Subsequencia(Tail(a), Tail(b)) ELSE Subsequencia(a, Tail(b))

RECURSIVE SemRepetidos(_, _)
SemRepetidos(t, vistos) ==
  IF t = <<>> THEN <<>>
  ELSE IF Head(t) \in vistos THEN SemRepetidos(Tail(t), vistos)
  ELSE <<Head(t)>> \o SemRepetidos(Tail(t), vistos \cup {Head(t)})

\* C14: the Deduplicator removes a product or sale row exactly when an
\* earlier row of its table is equal to it in every field (rows that share
\* only id_produto or id_venda both stay), and reports the number removed.
SoLinhaCompleta ==
  pc = "reconciliar" =>
    /\ df_p = SemRepetidos(pad.p, {})
    /\ df_v = SemRepetidos(pad.v, {})
    /\ rel.dups_p = Len(pad.p) - Len(df_p)
    /\ rel.dups_v = Len(pad.v) - Len(df_v)

\* two products with one id_produto and different prices both stay, two
\* sales with one id_venda and different totals both stay
SoLinhaCompletaWitness ==
  /\ pc = "reconciliar" /\ passada = 1
  /\ Len(pad.p) = 2 /\ pad.p[1].id_produto = pad.p[2].id_produto /\ pad.p[1] # pad.p[2]
  /\ df_p = pad.p /\ rel.dups_p = 0
  /\ Len(pad.v) = 2 /\ pad.v[1].id_venda = pad.v[2].id_venda /\ pad.v[1] # pad.v[2]
  /\ df_v = pad.v

\* C15: the customer and product tables the Reconciler returns are the ones
\* it received.
ReconciliadorNaoAlteraClientesProdutos ==
  pc = "fim" => df_c = ded.c /\ df_p = ded.p

\* the Reconciler has returned after dropping every sale of a customer and
\* of a product it received
ReconciliadorNaoAlteraClientesProdutosWitness ==
  /\ pc = "fim" /\ passada = 1
  /\ Len(df_c) >= 1 /\ Len(df_p) >= 1
  /\ Len(ded.v) >= 1 /\ Len(df_v) = 0

\* C16: the Standardizer turns a quantidade of 0 into 1 and leaves every
\* other quantidade, a negative one included; the later phases return sale
\* rows whose quantidade is the one they received.
SoQuantidadeZero ==
  /\ pc = "deduplicar" =>
       \A i \in DOMAIN ent.v :
         /\ ent.v[i].quantidade = 0 => df_v[i].quantidade = 1
         /\ ent.v[i].quantidade # 0 => df_v[i].quantidade = ent.v[i].quantidade
  /\ pc = "reconciliar" =>
       \A i \in DOMAIN df_v : \E j \in DOMAIN pad.v : df_v[i] = pad.v[j]
  /\ pc = "fim" =>
       \A i \in DOMAIN df_v : \E j \in DOMAIN ded.v :
         [df_v[i] EXCEPT !.valor_total = 0] = [ded.v[j] EXCEPT !.valor_total = 0]

\* the pipeline has returned a sale that arrived with quantidade -1 and a
\* sale that arrived with quantidade 0
SoQuantidadeZeroWitness ==
  /\ pc = "fim" /\ passada = 1
  /\ Len(ent.v) = 2 /\ Len(df_v) = 2
  /\ ent.v[1].quantidade = -1 /\ df_v[1].quantidade = -1
  /\ ent.v[2].quantidade = 0 /\ df_v[2].quantidade = 1

\* C17: the count reported for id duplicates and missing ids plus the count
\* reported for email duplicates is the number of rows the Deduplicator
\* received minus the number of customer rows it returns.
ContagemRemocoesClientes ==
  pc = "reconciliar" => rel.dups_id + rel.dups_email = Len(pad.c) - Len(df_c)

\* C18 as stated: the reported correction count is the number of surviving
\* sales whose valor_total differs between the Reconciler's input and output.
ContagemIgualAlterados ==
  pc = "fim" =>
    LET r == Resolvidas(ded.v, ded.c, ded.p) IN
      /\ Len(df_v) = Len(r)
      /\ rel.valor_corrigidos =
           Cardinality({i \in DOMAIN r : r[i].valor_total # df_v[i].valor_total})

\* C18 amended: the reported correction count is the number of surviving
\* sales whose stored valor_total is more than 0.01 away from quantidade x
\* valor_unitario; the sales whose valor_total changes are all those whose
\* stored value is not equal to it, so the count is at most their number.
ContagemForaDaTolerancia ==
  pc = "fim" =>
    LET r == Resolvidas(ded.v, ded.c, ded.p)
        alterados == {i \in DOMAIN r : r[i].valor_total # df_v[i].valor_total}
    IN /\ Len(df_v) = Len(r)
       /\ rel.valor_corrigidos = Cardinality({i \in DOMAIN r : ForaDaTolerancia(r[i])})
       /\ alterados = {i \in DOMAIN r : r[i].valor_total # r[i].quantidade * r[i].valor_unitario}
       /\ rel.valor_corrigidos <= Cardinality(alterados)

\* the Reconciler has changed a total 0.005 away and a total exactly 0.01
\* away from 2 x 50.0 and counted neither
ContagemForaDaToleranciaWitness ==
  /\ pc = "fim" /\ passada = 1
  /\ Len(ded.v) = 2 /\ Len(df_v) = 2
  /\ ded.v[1].valor_total = 100005 /\ ded.v[2].valor_total = 100010
  /\ df_v[1].valor_total = 100000 /\ df_v[2].valor_total = 100000
  /\ rel.valor_corrigidos = 0

\* C19: a customer row that arrives with a present id_cliente and is the
\* first row with that id is in the table the Deduplicator returns, unless a
\* row of that table has its email.
SoIdAusenteRemovido ==
  pc = "reconciliar" =>
    \A i \in DOMAIN ent.c :
      (ent.c[i].id_cliente # NaN /\ \A j \in 1..(i-1) : ent.c[j].id_cliente # ent.c[i].id_cliente)
        => \/ \E k \in DOMAIN df_c : df_c[k].id_cliente = ent.c[i].id_cliente
           \/ \E k \in DOMAIN df_c : df_c[k].email = ent.c[i].email

NomesDistintos(f) == \A i, j \in DOMAIN f : f[i].nome = f[j].nome => i = j

Mapeados(f) == {DATASET_MAP[f[i].nome] : i \in {k \in DOMAIN f : f[k].nome \in DOMAIN DATASET_MAP}}

\* C20 as stated: after executar_pipeline_ingestao every dataset with a
\* mapped file in the list is in exactly one of the two maps, an unmapped
\* file adds no entry, and no failure stops the loop.
UmMapaPorDataset ==
  /\ ing # "abortado"
  /\ ing = "fim" =>
       /\ pos = Len(file_paths) + 1
       /\ \A d \in Mapeados(file_paths) :
            (d \in DOMAIN dataframes_validos) # (d \in DOMAIN dataframes_rejeitados)
       /\ DOMAIN dataframes_validos \cup DOMAIN dataframes_rejeitados = Mapeados(file_paths)

\* C20 amended: every dataset with a mapped file in the list is in at least
\* one of the two maps, and in exactly one when no two paths of the list have
\* the same file name; an unmapped file adds no entry; no failure stops the loop.
UmMapaPorDatasetNomesDistintos ==
  /\ ing # "abortado"
  /\ ing = "fim" =>
       /\ pos = Len(file_paths) + 1
       /\ DOMAIN dataframes_validos \cup DOMAIN dataframes_rejeitados = Mapeados(file_paths)
       /\ NomesDistintos(file_paths) =>
            \A d \in Mapeados(file_paths) :
              (d \in DOMAIN dataframes_validos) # (d \in DOMAIN dataframes_rejeitados)

\* the function has returned after an unreadable file, a file the schema
\* rejects and a file it accepts
UmMapaPorDatasetWitness ==
  /\ ing = "fim"
  /\ Len(file_paths) = 3 /\ NomesDistintos(file_paths)
  /\ file_paths[1].conteudo = "ilegivel" /\ file_paths[2].conteudo = "invalido"
  /\ file_paths[3].conteudo = "valido" /\ file_paths[3].nome = "vendas.csv"
  /\ DOMAIN dataframes_validos = {"Vendas"}
  /\ Cardinality(DOMAIN dataframes_rejeitados) = 2
====
